---- MODULE Spec2Model ----
(***************************************************************************)
(* Model of backend/server.py: the TaskWarrior export pipeline.            *)
(*   subprocess run -> JSON decode -> from_raw (xN) -> JSON or HTML        *)
(* Instants are records [s, us]: whole seconds since 2024-01-01T00:00:00Z  *)
(* and microseconds.  Strings that the code inspects (due, stderr) are     *)
(* sequences of one-character strings.                                     *)
(***************************************************************************)
EXTENDS Integers, Sequences, FiniteSets, TLC

VARIABLES clock, pc, endpoint, proc, raw_tasks, reads, improved, response, dt1, dt2, td

vars == <<clock, pc, endpoint, proc, raw_tasks, reads, improved, response, dt1, dt2, td>>

(***************************************************************************)
(* Bounds of the model.                                                    *)
(***************************************************************************)
MaxBatch == 3
MaxTokens == 5

(***************************************************************************)
(* datetime: comparison and subtraction of aware UTC datetimes.            *)
(***************************************************************************)
Instant(s, us) == [s |-> s, us |-> us]

\* dt1 > dt2 on datetimes
After(a, b) == a.s > b.s \/ (a.s = b.s /\ a.us > b.us)

\* int((a - b).total_seconds()) for a >= b: a timedelta is normalised to
\* 0 <= microseconds < 10^6, so truncation drops the microsecond part.
TotalSeconds(a, b) == IF a.us < b.us THEN a.s - b.s - 1 ELSE a.s - b.s

(***************************************************************************)
(* TimeDiffModel                                                           *)
(***************************************************************************)
SECONDS_PER_MINUTE == 60
MINUTES_PER_HOUR == 60
HOURS_PER_DAY == 24
SECONDS_PER_HOUR == SECONDS_PER_MINUTE * MINUTES_PER_HOUR
SECONDS_PER_DAY == SECONDS_PER_HOUR * HOURS_PER_DAY

TimeDiffModel(d, h, m) == [days |-> d, hours |-> h, minutes |-> m]

\* a plausible slip: dt1 - dt2 in one fixed order, whichever is later
diff_signed(a, b) ==
    LET total_seconds == IF After(a, b) THEN TotalSeconds(a, b)
                         ELSE 0 - TotalSeconds(b, a)
    IN TimeDiffModel(total_seconds \div SECONDS_PER_DAY,
                     (total_seconds % SECONDS_PER_DAY) \div SECONDS_PER_HOUR,
                     (total_seconds % SECONDS_PER_HOUR) \div SECONDS_PER_MINUTE)

diff(a, b) ==
    LET total_seconds == IF After(a, b) THEN TotalSeconds(a, b)
                         ELSE TotalSeconds(b, a)
        days == total_seconds \div SECONDS_PER_DAY
        r1 == total_seconds % SECONDS_PER_DAY
        hours == r1 \div SECONDS_PER_HOUR
        r2 == r1 % SECONDS_PER_HOUR
        minutes == r2 \div SECONDS_PER_MINUTE
    IN TimeDiffModel(days, hours, minutes)

(***************************************************************************)
(* datetime.strptime(due_str, DATETIME_FORMAT) on 16-character strings     *)
(* YYYYMMDDTHHMMSSZ.  A ValueError is [ok |-> FALSE].                      *)
(***************************************************************************)
Digits == {"0", "1", "2", "3", "4", "5", "6", "7", "8", "9"}

DigitVal(c) == CASE c = "0" -> 0 [] c = "1" -> 1 [] c = "2" -> 2 [] c = "3" -> 3
                 [] c = "4" -> 4 [] c = "5" -> 5 [] c = "6" -> 6 [] c = "7" -> 7
                 [] c = "8" -> 8 [] c = "9" -> 9

Num2(str, i) == DigitVal(str[i]) * 10 + DigitVal(str[i + 1])

Num4(str, i) == Num2(str, i) * 100 + Num2(str, i + 2)

IsLeap(y) == (y % 4 = 0 /\ y % 100 # 0) \/ y % 400 = 0

DaysInMonth(y, m) == IF m = 2 THEN (IF IsLeap(y) THEN 29 ELSE 28)
                     ELSE IF m \in {4, 6, 9, 11} THEN 30 ELSE 31

RECURSIVE DaysBeforeMonth(_, _)
DaysBeforeMonth(y, m) == IF m <= 1 THEN 0
                         ELSE DaysBeforeMonth(y, m - 1) + DaysInMonth(y, m - 1)

DaysInYear(y) == IF IsLeap(y) THEN 366 ELSE 365

\* days from 2024-01-01, the day the instants of the model count from, to
\* January 1st of year y
RECURSIVE DaysBeforeYear(_)
DaysBeforeYear(y) == IF y = 2024 THEN 0
                     ELSE IF y > 2024 THEN DaysBeforeYear(y - 1) + DaysInYear(y - 1)
                     ELSE DaysBeforeYear(y + 1) - DaysInYear(y)

ValueError == [ok |-> FALSE, dt |-> Instant(0, 0)]

strptime(str) ==
    IF \/ Len(str) # 16
       \/ \E i \in {1, 2, 3, 4, 5, 6, 7, 8, 10, 11, 12, 13, 14, 15} : str[i] \notin Digits
       \/ str[9] # "T"
       \/ str[16] # "Z"
    THEN ValueError
    ELSE LET Y == Num4(str, 1)
             m == Num2(str, 5)
             d == Num2(str, 7)
             H == Num2(str, 10)
             M == Num2(str, 12)
             S == Num2(str, 14)
         IN IF \/ m < 1 \/ m > 12
               \/ d < 1 \/ d > DaysInMonth(Y, m)
               \/ H > 23 \/ M > 59 \/ S > 59
               \/ Y < 1
            THEN ValueError
            ELSE [ok |-> TRUE,
                  dt |-> Instant((DaysBeforeYear(Y) + DaysBeforeMonth(Y, m) + d - 1)
                                     * SECONDS_PER_DAY
                                 + H * SECONDS_PER_HOUR + M * SECONDS_PER_MINUTE + S,
                                 0)]

(***************************************************************************)
(* TaskRaw: a decoded JSON mapping.  Every field is [k, v] with k one of   *)
(* "absent" (key missing), "null" and "str" / "num" (a value v).           *)
(***************************************************************************)
AbsentStr == [k |-> "absent", v |-> ""]
NullStr == [k |-> "null", v |-> ""]
Str(v) == [k |-> "str", v |-> v]

AbsentText == [k |-> "absent", v |-> <<>>]
NullText == [k |-> "null", v |-> <<>>]
Text(v) == [k |-> "str", v |-> v]

AbsentNum == [k |-> "absent", v |-> 0]
NullNum == [k |-> "null", v |-> 0]
Num(v) == [k |-> "num", v |-> v]

TaskRaw(description, status, priority, project, due, urgency) ==
    [description |-> description, status |-> status, priority |-> priority,
     project |-> project, due |-> due, urgency |-> urgency]

\* dict.get(key): None when the key is missing, and when its value is null
IsNone(f) == f.k \in {"absent", "null"}

\* truthiness of dict.get(key) for a string and for a number
TruthyStr(f) == ~IsNone(f) /\ f.v # ""
TruthyText(f) == ~IsNone(f) /\ f.v # <<>>
TruthyNum(f) == ~IsNone(f) /\ f.v # 0

(***************************************************************************)
(* TaskImprovedModel                                                       *)
(***************************************************************************)
NoneStr == [k |-> "none", v |-> ""]
NoneDt == [k |-> "none", v |-> Instant(0, 0)]
NoneTd == [k |-> "none", v |-> TimeDiffModel(0, 0, 0)]
SomeDt(dt) == [k |-> "some", v |-> dt]
SomeTd(t) == [k |-> "some", v |-> t]

PRIORITY_MAP(f) == IF IsNone(f) THEN "None"
                   ELSE IF f.v = "H" THEN "HIGH"
                   ELSE IF f.v = "M" THEN "MEDIUM"
                   ELSE IF f.v = "L" THEN "LOW"
                   ELSE "None"

TaskImprovedModel(description, status, priority, project, due, due_in, overdue_by, urgency) ==
    [description |-> description, status |-> status, priority |-> priority,
     project |-> project, due |-> due, due_in |-> due_in,
     overdue_by |-> overdue_by, urgency |-> urgency]

\* the result of from_raw: a task, or IncorrectDateFormatException(value)
Returned(task) == [ok |-> TRUE, task |-> task]
IncorrectDateFormatException(value) == [ok |-> FALSE, value |-> value]

\* a plausible slip: "now >= due" decides overdue
from_raw_ge(raw_task, now) ==
    LET due_str == raw_task.due
        parsed == strptime(due_str.v)
        time_diff == diff(now, parsed.dt)
        overdue == ~After(parsed.dt, now)
    IN IF TruthyText(due_str) /\ ~parsed.ok
       THEN IncorrectDateFormatException(due_str.v)
       ELSE Returned(TaskImprovedModel(
                IF TruthyStr(raw_task.description) THEN raw_task.description.v ELSE "",
                IF TruthyStr(raw_task.status) THEN raw_task.status.v ELSE "pending",
                PRIORITY_MAP(raw_task.priority),
                IF IsNone(raw_task.project) THEN NoneStr ELSE [k |-> "some", v |-> raw_task.project.v],
                IF TruthyText(due_str) THEN SomeDt(parsed.dt) ELSE NoneDt,
                IF TruthyText(due_str) /\ ~overdue THEN SomeTd(time_diff) ELSE NoneTd,
                IF TruthyText(due_str) /\ overdue THEN SomeTd(time_diff) ELSE NoneTd,
                IF TruthyNum(raw_task.urgency) THEN raw_task.urgency.v ELSE 0))

\* a plausible slip: due_in is always filled in when due parses
from_raw_both(raw_task, now) ==
    LET r == from_raw_ge(raw_task, now)
    IN IF r.ok /\ r.task.due.k = "some"
       THEN Returned([r.task EXCEPT !.due_in = SomeTd(diff(now, r.task.due.v)),
                                    !.overdue_by = IF After(now, r.task.due.v)
                                                   THEN SomeTd(diff(now, r.task.due.v))
                                                   ELSE NoneTd])
       ELSE r

\* from_raw(raw_task), with now the value that datetime.now(timezone.utc)
\* returns at line 175 (read only when due_str is truthy and parses)
from_raw(raw_task, now) ==
    LET description == IF TruthyStr(raw_task.description) THEN raw_task.description.v
                       ELSE ""
        status == IF TruthyStr(raw_task.status) THEN raw_task.status.v ELSE "pending"
        urgency == IF TruthyNum(raw_task.urgency) THEN raw_task.urgency.v ELSE 0
        project == IF IsNone(raw_task.project) THEN NoneStr
                   ELSE [k |-> "some", v |-> raw_task.project.v]
        priority == PRIORITY_MAP(raw_task.priority)
        due_str == raw_task.due
        parsed == strptime(due_str.v)
        time_diff == diff(now, parsed.dt)
    IN IF ~TruthyText(due_str)
       THEN Returned(TaskImprovedModel(description, status, priority, project,
                                       NoneDt, NoneTd, NoneTd, urgency))
       ELSE IF ~parsed.ok
       THEN IncorrectDateFormatException(due_str.v)
       ELSE IF After(now, parsed.dt)
       THEN Returned(TaskImprovedModel(description, status, priority, project,
                                       SomeDt(parsed.dt), NoneTd, SomeTd(time_diff),
                                       urgency))
       ELSE Returned(TaskImprovedModel(description, status, priority, project,
                                       SomeDt(parsed.dt), SomeTd(time_diff), NoneTd,
                                       urgency))

\* whether from_raw reads the clock for this record
ReadsClock(raw_task) == TruthyText(raw_task.due) /\ strptime(raw_task.due.v).ok

(***************************************************************************)
(* raw2improved: the list comprehension, left to right; nows[i] is the     *)
(* clock reading of the i-th call of from_raw.  The first exception ends   *)
(* the comprehension.                                                      *)
(***************************************************************************)
RECURSIVE Comprehension(_, _, _, _)
Comprehension(raws, nows, i, acc) ==
    IF i > Len(raws) THEN [ok |-> TRUE, tasks |-> acc]
    ELSE LET r == from_raw(raws[i], nows[i])
         IN IF r.ok THEN Comprehension(raws, nows, i + 1, Append(acc, r.task))
            ELSE [ok |-> FALSE, value |-> r.value]

\* a plausible slip: records whose due does not parse are skipped
RECURSIVE ComprehensionSkip(_, _, _, _)
ComprehensionSkip(raws, nows, i, acc) ==
    IF i > Len(raws) THEN [ok |-> TRUE, tasks |-> acc]
    ELSE LET r == from_raw(raws[i], nows[i])
         IN ComprehensionSkip(raws, nows, i + 1,
                              IF r.ok THEN Append(acc, r.task) ELSE acc)

raw2improved_skip(raws, nows) == ComprehensionSkip(raws, nows, 1, <<>>)

raw2improved(raws, nows) == Comprehension(raws, nows, 1, <<>>)

(***************************************************************************)
(* sorted(tasks, key=attrgetter('urgency'), reverse=True): a stable sort,  *)
(* and reverse=True keeps the original order of equal keys.                *)
(***************************************************************************)
RECURSIVE InsertDesc(_, _, _)
\* insert x into the descending list s behind every element with key >= x's
InsertDesc(s, x, strict) ==
    IF s = <<>> THEN <<x>>
    ELSE IF Head(s).urgency > x.urgency \/ (~strict /\ Head(s).urgency = x.urgency)
    THEN <<Head(s)>> \o InsertDesc(Tail(s), x, strict)
    ELSE <<x>> \o s

RECURSIVE SortDesc(_, _)
SortDesc(tasks, strict) ==
    IF tasks = <<>> THEN <<>>
    ELSE InsertDesc(SortDesc(SubSeq(tasks, 1, Len(tasks) - 1), strict),
                    tasks[Len(tasks)], strict)

\* a plausible slip: an ascending sort reversed afterwards, which reverses ties
sorted_then_reversed(tasks) == SortDesc(tasks, TRUE)

sorted(tasks) == SortDesc(tasks, FALSE)

(***************************************************************************)
(* GPT_TASK_HTML_TEMPLATE: one block per task; a conditional line is a     *)
(* sequence, empty when the {% if %} hides it.  A 'Due in' / 'Overdue by'  *)
(* line is the three numbers it prints, in the order days, hours, minutes  *)
(* of its labels.                                                          *)
(***************************************************************************)
\* lines 279 and 285: the third number printed is task.due_in['days']
TemplateDiffLine(t) == <<t.days, t.hours, t.days>>

RenderTask(task) ==
    [description |-> task.description,
     status |-> task.status,
     priority |-> IF task.priority # "None" THEN <<task.priority>> ELSE <<>>,
     project |-> IF task.project.k = "some" /\ task.project.v # ""
                 THEN <<task.project.v>> ELSE <<>>,
     due |-> IF task.due.k = "some" THEN <<task.due.v>> ELSE <<>>,
     due_in |-> IF task.due_in.k = "some" THEN <<TemplateDiffLine(task.due_in.v)>>
                ELSE <<>>,
     overdue_by |-> IF task.overdue_by.k = "some"
                    THEN <<TemplateDiffLine(task.overdue_by.v)>> ELSE <<>>,
     urgency |-> IF task.urgency # 0 THEN <<task.urgency>> ELSE <<>>]

render(tasks) == [i \in 1..Len(tasks) |-> RenderTask(tasks[i])]

(***************************************************************************)
(* json.loads on a text given as its tokens.  A token is [t, obj]: t is    *)
(* "[", "]", ",", "obj" (a complete JSON object, obj its mapping), "num"   *)
(* (a scalar literal) or "junk" (text that starts no JSON value).          *)
(* A JSON value is [k, items, obj] with k "list", "dict" or "num".         *)
(***************************************************************************)
NoFields == TaskRaw(AbsentStr, AbsentStr, AbsentStr, AbsentStr, AbsentText, AbsentNum)

Tok(t) == [t |-> t, obj |-> NoFields]
ObjTok(obj) == [t |-> "obj", obj |-> obj]

JList(items) == [k |-> "list", items |-> items, obj |-> NoFields]
JDict(obj) == [k |-> "dict", items |-> <<>>, obj |-> obj]
JNum == [k |-> "num", items |-> <<>>, obj |-> NoFields]

JSONDecodeError == [ok |-> FALSE, val |-> JNum, next |-> 0]
Parsed(val, next) == [ok |-> TRUE, val |-> val, next |-> next]

RECURSIVE ParseValue(_, _), ParseItems(_, _, _)
ParseValue(toks, i) ==
    IF i > Len(toks) THEN JSONDecodeError
    ELSE IF toks[i].t = "obj" THEN Parsed(JDict(toks[i].obj), i + 1)
    ELSE IF toks[i].t = "num" THEN Parsed(JNum, i + 1)
    ELSE IF toks[i].t = "["
    THEN IF i + 1 <= Len(toks) /\ toks[i + 1].t = "]"
         THEN Parsed(JList(<<>>), i + 2)
         ELSE ParseItems(toks, i + 1, <<>>)
    ELSE JSONDecodeError

ParseItems(toks, i, acc) ==
    LET v == ParseValue(toks, i)
    IN IF ~v.ok \/ v.next > Len(toks) THEN JSONDecodeError
       ELSE IF toks[v.next].t = "," THEN ParseItems(toks, v.next + 1, Append(acc, v.val))
       ELSE IF toks[v.next].t = "]" THEN Parsed(JList(Append(acc, v.val)), v.next + 1)
       ELSE JSONDecodeError

\* the whole text must be one value ("Extra data" otherwise)
json_loads(toks) ==
    LET v == ParseValue(toks, 1)
    IN IF v.ok /\ v.next = Len(toks) + 1 THEN v ELSE JSONDecodeError

(***************************************************************************)
(* get_raw_tasks.  A result is the list of tasks, or the exception that    *)
(* leaves the function: an HTTPException, or one that no handler catches   *)
(* and the framework answers with status 500.                              *)
(***************************************************************************)
NoText == <<>>

Detail(msg, arg, rc, text) == [msg |-> msg, arg |-> arg, rc |-> rc, text |-> text]

HTTPException(status_code, detail) ==
    [ok |-> FALSE, status |-> status_code, detail |-> detail, tasks |-> <<>>]

Unhandled(exc) == HTTPException(500, Detail("Internal Server Error", exc, 0, NoText))

Tasks(tasks) == [ok |-> TRUE, status |-> 200, detail |-> Detail("", "", 0, NoText),
                 tasks |-> tasks]

InvalidJSON == HTTPException(502, Detail("task export generated invalid JSON", "", 0, NoText))

UnexpectedShape ==
    HTTPException(502, Detail("task export produced unexpected JSON shape", "", 0, NoText))

IsListOfDicts(val) ==
    val.k = "list" /\ \A i \in 1..Len(val.items) : val.items[i].k = "dict"

\* a plausible slip: "except Exception" around the try block, so that the
\* HTTPException raised inside it is reported as invalid JSON
decode_except_all(stdout) ==
    LET v == json_loads(stdout)
    IN IF v.ok /\ IsListOfDicts(v.val)
       THEN Tasks([i \in 1..Len(v.val.items) |-> v.val.items[i].obj])
       ELSE InvalidJSON

\* lines 235-241: the try block
decode(stdout) ==
    LET v == json_loads(stdout)
    IN IF ~v.ok THEN InvalidJSON
       ELSE IF ~IsListOfDicts(v.val) THEN UnexpectedShape
       ELSE Tasks([i \in 1..Len(v.val.items) |-> v.val.items[i].obj])

\* str.strip(): leading and trailing whitespace removed
Whitespace == {" ", "\n", "\t"}

RECURSIVE lstrip(_)
lstrip(s) == IF s # <<>> /\ Head(s) \in Whitespace THEN lstrip(Tail(s)) ELSE s

RECURSIVE rstrip(_)
rstrip(s) == IF s # <<>> /\ s[Len(s)] \in Whitespace
             THEN rstrip(SubSeq(s, 1, Len(s) - 1)) ELSE s

strip(s) == rstrip(lstrip(s))

\* signal.Signals on Linux: the members of the enum are 1..31, SIGRTMIN and
\* SIGRTMAX; Signals(n) raises ValueError for any other n
SignalNames ==
    <<"SIGHUP", "SIGINT", "SIGQUIT", "SIGILL", "SIGTRAP", "SIGABRT", "SIGBUS",
      "SIGFPE", "SIGKILL", "SIGUSR1", "SIGSEGV", "SIGUSR2", "SIGPIPE", "SIGALRM",
      "SIGTERM", "SIGSTKFLT", "SIGCHLD", "SIGCONT", "SIGSTOP", "SIGTSTP", "SIGTTIN",
      "SIGTTOU", "SIGURG", "SIGXCPU", "SIGXFSZ", "SIGVTALRM", "SIGPROF", "SIGWINCH",
      "SIGIO", "SIGPWR", "SIGSYS">>

IsSignalsMember(n) == n \in 1..Len(SignalNames) \/ n = 34 \/ n = 64

Signals(n) == IF n \in 1..Len(SignalNames) THEN SignalNames[n]
              ELSE IF n = 34 THEN "SIGRTMIN" ELSE "SIGRTMAX"

\* the timeout argument of subprocess.run, in seconds
TIMEOUT == 5

\* a plausible slip: the "rc != 0" test left out, so that the output of a
\* failed export is decoded
get_raw_tasks_no_rc(p) ==
    IF p.launch = "FileNotFoundError"
    THEN HTTPException(502, Detail("File not found error: ", p.oserr, 0, NoText))
    ELSE IF p.launch = "OSError"
    THEN HTTPException(502, Detail("OS error: ", p.oserr, 0, NoText))
    ELSE IF p.runtime > TIMEOUT
    THEN HTTPException(504, Detail("task export timed out", "", 0, NoText))
    ELSE IF p.rc < 0
    THEN IF IsSignalsMember(0 - p.rc)
         THEN HTTPException(502, Detail("task export crashed: ", Signals(0 - p.rc), 0, NoText))
         ELSE Unhandled("ValueError")
    ELSE decode(p.stdout)

\* p is what the one call of subprocess.run meets: launch is "ok" or the
\* OSError that Popen raises (oserr its text), runtime the seconds the
\* process runs, rc / stdout / stderr what it leaves when it is waited for
get_raw_tasks(p) ==
    IF p.launch = "FileNotFoundError"
    THEN HTTPException(502, Detail("File not found error: ", p.oserr, 0, NoText))
    ELSE IF p.launch = "OSError"
    THEN HTTPException(502, Detail("OS error: ", p.oserr, 0, NoText))
    ELSE IF p.runtime > TIMEOUT
    THEN HTTPException(504, Detail("task export timed out", "", 0, NoText))
    ELSE IF p.rc < 0
    THEN IF IsSignalsMember(0 - p.rc)
         THEN HTTPException(502, Detail("task export crashed: ", Signals(0 - p.rc), 0, NoText))
         ELSE Unhandled("ValueError")
    ELSE IF p.rc # 0
    THEN HTTPException(502, Detail("task export failed rc=", "", p.rc, strip(p.stderr)))
    ELSE decode(p.stdout)

(***************************************************************************)
(* Inputs of the model.                                                    *)
(***************************************************************************)
DigitChar(n) == CASE n = 0 -> "0" [] n = 1 -> "1" [] n = 2 -> "2" [] n = 3 -> "3"
                  [] n = 4 -> "4" [] n = 5 -> "5" [] n = 6 -> "6" [] n = 7 -> "7"
                  [] n = 8 -> "8" [] n = 9 -> "9"

Fmt2(n) == <<DigitChar(n \div 10), DigitChar(n % 10)>>

\* the text TaskWarrior exports for a date: YYYYMMDDTHHMMSSZ
Timestamp(Y, m, d, H, M, S) ==
    Fmt2(Y \div 100) \o Fmt2(Y % 100) \o Fmt2(m) \o Fmt2(d) \o <<"T">>
        \o Fmt2(H) \o Fmt2(M) \o Fmt2(S) \o <<"Z">>

Due1 == Timestamp(2024, 1, 2, 0, 0, 0)
Due2 == Timestamp(2024, 1, 3, 2, 0, 0)
BadDue1 == Timestamp(2024, 2, 30, 0, 0, 0)
BadDue2 == <<"s", "o", "o", "n">>

Due1Instant == Instant(86400, 0)

RawTasks ==
    { TaskRaw(Str("a"), Str("pending"), Str("H"), Str("home"), AbsentText, Num(1)),
      TaskRaw(Str("b"), NullStr, Str("Q"), NullStr, NullText, Num(5)),
      TaskRaw(AbsentStr, AbsentStr, AbsentStr, AbsentStr, Text(<<>>), AbsentNum),
      TaskRaw(Str("d"), Str("pending"), Str("M"), Str(""), Text(Due1), Num(3)),
      TaskRaw(Str("e"), Str("waiting"), NullStr, AbsentStr, Text(Due1), NullNum),
      TaskRaw(Str("f"), Str(""), Str("L"), Str("work"), Text(Due2), Num(0)),
      TaskRaw(Str("g"), Str("pending"), AbsentStr, AbsentStr, Text(BadDue1), Num(1)),
      TaskRaw(Str(""), Str("pending"), AbsentStr, AbsentStr, Text(BadDue2), Num(1)) }

\* readings of the wall clock: one hour before Due1, at it, half a second
\* after it, and 1d02h00m30.25s after it
ClockInstants ==
    { Instant(82800, 0), Due1Instant, Instant(86400, 500000), Instant(180030, 250000) }

DiffInstants ==
    { Instant(s, us) : s \in {0, 59, 60, 3599, 3600, 86399, 86400, 90061, 180000, 1000000},
                       us \in {0, 1, 999999} }

RECURSIVE SeqsUpTo(_, _)
SeqsUpTo(S, n) ==
    IF n = 0 THEN {<<>>}
    ELSE LET shorter == SeqsUpTo(S, n - 1)
         IN shorter \cup {Append(q, x) : q \in {r \in shorter : Len(r) = n - 1}, x \in S}

Batches == SeqsUpTo(RawTasks, MaxBatch)

\* the JSON text of a list of objects
RECURSIVE Encode(_)
Encode(batch) ==
    IF batch = <<>> THEN <<Tok("["), Tok("]")>>
    ELSE IF Len(batch) = 1 THEN <<Tok("["), ObjTok(batch[1]), Tok("]")>>
    ELSE <<Tok("["), ObjTok(batch[1]), Tok(",")>> \o Tail(Encode(Tail(batch)))

Process(launch, oserr, runtime, rc, stdout, stderr) ==
    [launch |-> launch, oserr |-> oserr, runtime |-> runtime, rc |-> rc,
     stdout |-> stdout, stderr |-> stderr]

Exited(rc, stdout, stderr) == Process("ok", "", 1, rc, stdout, stderr)

Boom == <<"b", "o", "o", "m">>

\* Spec: exports of every batch, and one failure of each stage before from_raw
Procs ==
    { Exited(0, Encode(b), <<>>) : b \in Batches }
        \cup { Process("ok", "", 6, 0, <<>>, <<>>),
               Exited(1, <<>>, Boom),
               Exited(0, <<Tok("junk")>>, <<>>),
               Exited(0, <<ObjTok(NoFields)>>, <<>>) }

\* SpecRunner: every outcome of the one subprocess.run
OsErrors == {"[Errno 2] No such file or directory: 'task'",
             "[Errno 13] Permission denied: 'task'"}

\* the signals Linux delivers: 1..SIGRTMAX
DeliverableSignals == 1..64

RunnerStdouts == { Encode(<<>>), Encode(<<NoFields>>), <<Tok("junk")>>, <<>> }

RunnerStderrs == { <<>>, Boom, <<" ", "\n">>,
                   <<"\n", " ">> \o Boom \o <<"\t", "\n">>,
                   <<" ">> \o Boom \o <<" ">> \o Boom }

RunnerProcs ==
    { Process(l, e, 0, 0, <<>>, <<>>) : l \in {"FileNotFoundError", "OSError"}, e \in OsErrors }
        \cup { Process("ok", "", t, rc, out, err) :
                   t \in {0, TIMEOUT, TIMEOUT + 1},
                   rc \in {0, 1, 2, 255} \cup {0 - n : n \in {9, 15}},
                   out \in RunnerStdouts, err \in RunnerStderrs }
        \cup { Exited(0 - n, <<>>, <<>>) : n \in DeliverableSignals }

\* SpecDecode: every text of at most MaxTokens tokens from a process that
\* exited 0
ObjA == TaskRaw(Str("a"), AbsentStr, AbsentStr, AbsentStr, AbsentText, Num(1))
ObjB == TaskRaw(Str("b"), AbsentStr, AbsentStr, AbsentStr, AbsentText, Num(5))

Tokens == { Tok("["), Tok("]"), Tok(","), Tok("num"), Tok("junk"), ObjTok(ObjA), ObjTok(ObjB) }

DecodeProcs == { Exited(0, text, <<>>) : text \in SeqsUpTo(Tokens, MaxTokens) }

(***************************************************************************)
(* State: one request from its arrival (pc = "idle") to its response       *)
(* (pc = "done").  clock is the wall clock; raw_tasks is what get_raw_tasks *)
(* returned to the handler; reads are the values that the                  *)
(* calls of datetime.now at line 175 returned, one per record (a record    *)
(* whose from_raw does not reach line 175 repeats the value before it);    *)
(* improved is what raw2improved returned.                                 *)
(***************************************************************************)
NoProcess == Process("none", "", 0, 0, <<>>, <<>>)

Response(status, detail, body) == [status |-> status, detail |-> detail, body |-> body]

NoResponse == Response(0, Detail("", "", 0, NoText), <<>>)

Raised(e) == Response(e.status, e.detail, <<>>)

DateFormatDetail(value) ==
    Detail("Expected date string with format '%Y%m%dT%H%M%SZ' but got", "", 0, value)

NotBefore(a, b) == ~After(b, a)

\* the readings of records i.. when the reading before them is c: the clock
\* never runs backwards
RECURSIVE ReadingsFrom(_, _, _)
ReadingsFrom(c, raws, i) ==
    IF i > Len(raws) THEN {<<>>}
    ELSE LET choices == IF ReadsClock(raws[i])
                        THEN {t \in ClockInstants : NotBefore(t, c)}
                        ELSE {c}
         IN UNION { { <<t>> \o rest : rest \in ReadingsFrom(t, raws, i + 1) } :
                    t \in choices }

Readings(c, raws) == ReadingsFrom(c, raws, 1)

LastReading(c, nows) == IF nows = <<>> THEN c ELSE nows[Len(nows)]

Init ==
    /\ clock \in ClockInstants
    /\ pc = "idle"
    /\ endpoint = "none"
    /\ proc = NoProcess
    /\ raw_tasks = <<>>
    /\ reads = <<>>
    /\ improved = <<>>
    /\ response = NoResponse
    /\ dt1 = Instant(0, 0)
    /\ dt2 = Instant(0, 0)
    /\ td = TimeDiffModel(0, 0, 0)

\* GET /tasks
tasks(P) ==
    /\ pc = "idle"
    /\ \E p \in P :
        LET r == get_raw_tasks(p)
        IN /\ proc' = p
           /\ raw_tasks' = r.tasks
           /\ response' = IF r.ok THEN Response(200, r.detail, r.tasks) ELSE Raised(r)
    /\ pc' = "done"
    /\ endpoint' = "/tasks"
    /\ UNCHANGED <<clock, reads, improved, dt1, dt2, td>>

\* GET /gpt/tasks
gpt_tasks(P) ==
    /\ pc = "idle"
    /\ \E p \in P :
        LET r == get_raw_tasks(p)
        IN /\ proc' = p
           /\ raw_tasks' = r.tasks
           /\ IF ~r.ok
              THEN /\ response' = Raised(r)
                   /\ UNCHANGED <<clock, reads, improved>>
              ELSE \E nows \in Readings(clock, r.tasks) :
                       LET m == raw2improved(r.tasks, nows)
                       IN /\ reads' = nows
                          /\ clock' = LastReading(clock, nows)
                          /\ improved' = IF m.ok THEN m.tasks ELSE <<>>
                          /\ response' = IF m.ok THEN Response(200, r.detail, m.tasks)
                                         ELSE Response(502, DateFormatDetail(m.value), <<>>)
    /\ pc' = "done"
    /\ endpoint' = "/gpt/tasks"
    /\ UNCHANGED <<dt1, dt2, td>>

\* GET /gpt/html/tasks
gpt_tasks_html(P) ==
    /\ pc = "idle"
    /\ \E p \in P :
        LET r == get_raw_tasks(p)
        IN /\ proc' = p
           /\ raw_tasks' = r.tasks
           /\ IF ~r.ok
              THEN /\ response' = Raised(r)
                   /\ UNCHANGED <<clock, reads, improved>>
              ELSE \E nows \in Readings(clock, r.tasks) :
                       LET m == raw2improved(r.tasks, nows)
                       IN /\ reads' = nows
                          /\ clock' = LastReading(clock, nows)
                          /\ improved' = IF m.ok THEN m.tasks ELSE <<>>
                          /\ response' = IF m.ok
                                         THEN Response(200, r.detail, render(sorted(m.tasks)))
                                         ELSE Response(502, DateFormatDetail(m.value), <<>>)
    /\ pc' = "done"
    /\ endpoint' = "/gpt/html/tasks"
    /\ UNCHANGED <<dt1, dt2, td>>

Next == tasks(Procs) \/ gpt_tasks(Procs) \/ gpt_tasks_html(Procs)

Spec == Init /\ [][Next]_vars

NextRunner == tasks(RunnerProcs) \/ gpt_tasks(RunnerProcs) \/ gpt_tasks_html(RunnerProcs)

\* the runner and the decoder never read the clock: one arrival time
InitAtDue1 == Init /\ clock = Due1Instant

SpecRunner == InitAtDue1 /\ [][NextRunner]_vars

NextDecode == tasks(DecodeProcs) \/ gpt_tasks(DecodeProcs) \/ gpt_tasks_html(DecodeProcs)

SpecDecode == InitAtDue1 /\ [][NextDecode]_vars

\* TimeDiffModel.diff on its own: every pair of instants
InitDiff ==
    /\ dt1 \in DiffInstants
    /\ dt2 \in DiffInstants
    /\ td = TimeDiffModel(0, 0, 0)
    /\ pc = "idle"
    /\ clock = Instant(0, 0)
    /\ endpoint = "none"
    /\ proc = NoProcess
    /\ raw_tasks = <<>>
    /\ reads = <<>>
    /\ improved = <<>>
    /\ response = NoResponse

CallDiff ==
    /\ pc = "idle"
    /\ td' = diff(dt1, dt2)
    /\ pc' = "done"
    /\ UNCHANGED <<clock, endpoint, proc, raw_tasks, reads, improved, response, dt1, dt2>>

SpecDiff == InitDiff /\ [][CallDiff]_vars

(***************************************************************************)
(* Properties.                                                             *)
(***************************************************************************)
Done == pc = "done"

Ran == proc.launch = "ok" /\ proc.runtime <= TIMEOUT

Normalizing == endpoint \in {"/gpt/tasks", "/gpt/html/tasks"}

\* t is s without its leading and trailing whitespace
IsTrimOf(t, s) ==
    /\ t = <<>> \/ (t[1] \notin Whitespace /\ t[Len(t)] \notin Whitespace)
    /\ \E i \in 0..Len(s) :
          /\ i + Len(t) <= Len(s)
          /\ \A j \in 1..Len(t) : s[i + j] = t[j]
          /\ \A j \in 1..Len(s) : (j <= i \/ j > i + Len(t)) => s[j] \in Whitespace

C2_SignalIs502 ==
    Done /\ Ran /\ proc.rc < 0 =>
        /\ response.status = 502
        /\ response.detail.msg = "task export crashed: "
        /\ response.detail.arg # ""

(***************************************************************************)
(* JSON texts, recognised by reduction: the innermost bracket pair must    *)
(* hold values separated by commas, and stands for one value.              *)
(***************************************************************************)
IsItems(s, kinds) ==
    \/ s = <<>>
    \/ /\ Len(s) % 2 = 1
       /\ \A i \in 1..Len(s) : IF i % 2 = 1 THEN s[i].t \in kinds ELSE s[i].t = ","

RECURSIVE IsJSONText(_)
IsJSONText(s) ==
    IF Len(s) <= 1 THEN s # <<>> /\ s[1].t \in {"obj", "num"}
    ELSE LET closing == {j \in 1..Len(s) : s[j].t = "]"}
             j == CHOOSE x \in closing : \A y \in closing : x <= y
             opening == {i \in 1..(j - 1) : s[i].t = "["}
             i == CHOOSE x \in opening : \A y \in opening : x >= y
         IN /\ closing # {}
            /\ opening # {}
            /\ IsItems(SubSeq(s, i + 1, j - 1), {"obj", "num"})
            /\ IsJSONText(SubSeq(s, 1, i - 1) \o <<Tok("num")>> \o SubSeq(s, j + 1, Len(s)))

IsListOfObjectsText(s) ==
    /\ Len(s) >= 2
    /\ s[1].t = "["
    /\ s[Len(s)].t = "]"
    /\ IsItems(SubSeq(s, 2, Len(s) - 1), {"obj"})

\* the objects of a text, in the order they are written
ObjectsOf(s) == SelectSeq(s, LAMBDA tok : tok.t = "obj")

\* C3: for a process that exited 0: text that is not JSON -> 502 'invalid
\* JSON'; JSON that is not a list of mappings -> 502 'unexpected JSON shape',
\* not reported as invalid JSON; otherwise the decoded records are exactly
\* the objects of the text, same length and order (the empty list included).
C3_DecodeClassified ==
    Done /\ Ran /\ proc.rc = 0 =>
        IF ~IsJSONText(proc.stdout)
        THEN /\ response.status = 502
             /\ response.detail.msg = "task export generated invalid JSON"
             /\ response.body = <<>>
        ELSE IF ~IsListOfObjectsText(proc.stdout)
        THEN /\ response.status = 502
             /\ response.detail.msg = "task export produced unexpected JSON shape"
             /\ response.body = <<>>
        ELSE /\ response.status = 200
             /\ Len(response.body) = Len(ObjectsOf(proc.stdout))
             /\ endpoint = "/tasks" =>
                    \A i \in 1..Len(response.body) :
                        response.body[i] = ObjectsOf(proc.stdout)[i].obj

C3_Witness ==
    /\ Done
    /\ proc.stdout = <<Tok("["), Tok("num"), Tok(","), ObjTok(ObjA), Tok("]")>>
    /\ response.status = 502
    /\ response.detail.msg = "task export produced unexpected JSON shape"

(***************************************************************************)
(* Normalisation: record i of the batch was normalised at reads[i] and is  *)
(* improved[i].                                                            *)
(***************************************************************************)
Normalized == Done /\ Normalizing /\ response.status = 200

Records == 1..Len(improved)

DueAbsent(raw_task) == raw_task.due.k \in {"absent", "null"} \/ raw_task.due.v = <<>>

DueOf(raw_task) == strptime(raw_task.due.v).dt

Present(f) == f.k = "some"

\* C4: a record whose due is absent, null or empty has no due, due_in or
\* overdue_by; one whose due parses never has both due_in and overdue_by,
\* has overdue_by (= diff(now, due)) exactly when now is strictly after due,
\* and has due_in (= diff(now, due)) whenever due is strictly after now.
C4_DueInOrOverdueBy ==
    Normalized =>
        \A i \in Records :
            LET raw_task == raw_tasks[i]
                task == improved[i]
                now == reads[i]
            IN IF DueAbsent(raw_task)
               THEN ~Present(task.due) /\ ~Present(task.due_in) /\ ~Present(task.overdue_by)
               ELSE /\ ~(Present(task.due_in) /\ Present(task.overdue_by))
                    /\ Present(task.overdue_by) <=> After(now, DueOf(raw_task))
                    /\ Present(task.overdue_by) =>
                           task.overdue_by.v = diff(now, DueOf(raw_task))
                    /\ After(DueOf(raw_task), now) =>
                           /\ Present(task.due_in)
                           /\ task.due_in.v = diff(now, DueOf(raw_task))

\* due one day and two hours ago: overdue_by = {1, 2, *}, due_in absent
C4_Witness ==
    /\ Normalized
    /\ \E i \in Records :
          /\ After(reads[i], DueOf(raw_tasks[i]))
          /\ Present(improved[i].overdue_by)
          /\ improved[i].overdue_by.v.days = 1
          /\ improved[i].overdue_by.v.hours = 2
          /\ ~Present(improved[i].due_in)

NowIsDue(i) == ~DueAbsent(raw_tasks[i]) /\ reads[i] = DueOf(raw_tasks[i])

\* C5 as stated: when due parses to exactly the instant now, the enriched
\* task has neither due_in nor overdue_by.
C5_NeitherAtDue ==
    Normalized =>
        \A i \in Records :
            NowIsDue(i) => ~Present(improved[i].due_in) /\ ~Present(improved[i].overdue_by)

\* C5 amended: when due parses to exactly the instant now, due_in is set, to
\* the zero TimeDiff, and overdue_by is absent.
C5_DueInAtDue ==
    Normalized =>
        \A i \in Records :
            NowIsDue(i) =>
                /\ improved[i].due_in = SomeTd(TimeDiffModel(0, 0, 0))
                /\ ~Present(improved[i].overdue_by)

C5_Witness ==
    /\ Normalized
    /\ \E i \in Records : NowIsDue(i) /\ Present(improved[i].due_in)

HasBadDue(raw_task) == ~DueAbsent(raw_task) /\ ~strptime(raw_task.due.v).ok

BadRecords == {i \in 1..Len(raw_tasks) : HasBadDue(raw_tasks[i])}

FirstBadRecord == CHOOSE i \in BadRecords : \A j \in BadRecords : i <= j

\* C7: a decoded batch with a due that is present, non-empty and does not
\* parse: both enrichment endpoints answer 502, the detail names the due
\* string of the first such record, and no enriched task is returned; GET
\* /tasks answers 200 with every raw record.
C7_BadDueFailsBatch ==
    Done /\ BadRecords # {} =>
        IF Normalizing
        THEN /\ response.status = 502
             /\ response.detail.msg = "Expected date string with format '%Y%m%dT%H%M%SZ' but got"
             /\ response.detail.text = raw_tasks[FirstBadRecord].due.v
             /\ response.body = <<>>
        ELSE /\ response.status = 200
             /\ response.body = raw_tasks

C7_Witness ==
    /\ Done
    /\ endpoint = "/gpt/html/tasks"
    /\ Len(raw_tasks) = 3
    /\ BadRecords = {2, 3}
    /\ raw_tasks[2].due.v = BadDue2
    /\ raw_tasks[3].due.v = BadDue1
    /\ response.status = 502
    /\ response.detail.text = BadDue2

\* the urgency of a raw record: absent, null and 0 all count as 0
UrgencyOf(raw_task) == IF raw_task.urgency.k = "num" THEN raw_task.urgency.v ELSE 0

Orderings(n) == {f \in [1..n -> 1..n] : \A i, j \in 1..n : f[i] = f[j] => i = j}

\* C8: the JSON path returns one enriched task per raw record, in the order
\* of the raw records; the HTML path renders the same tasks permuted into
\* descending urgency, tasks of equal urgency in their input order.
C8_OrderOfTasks ==
    Normalized =>
        /\ Len(response.body) = Len(raw_tasks)
        /\ endpoint = "/gpt/tasks" =>
              \A i \in 1..Len(raw_tasks) :
                  /\ response.body[i] = improved[i]
                  /\ response.body[i].urgency = UrgencyOf(raw_tasks[i])
                  /\ response.body[i].description =
                         (IF raw_tasks[i].description.k = "str"
                          THEN raw_tasks[i].description.v ELSE "")
        /\ endpoint = "/gpt/html/tasks" =>
              \E f \in Orderings(Len(improved)) :
                  /\ \A j \in Records :
                        /\ response.body[j].description = improved[f[j]].description
                        /\ response.body[j].status = improved[f[j]].status
                        /\ response.body[j].due = RenderTask(improved[f[j]]).due
                  /\ \A j \in 1..(Len(improved) - 1) :
                        \/ UrgencyOf(raw_tasks[f[j]]) > UrgencyOf(raw_tasks[f[j + 1]])
                        \/ /\ UrgencyOf(raw_tasks[f[j]]) = UrgencyOf(raw_tasks[f[j + 1]])
                           /\ f[j] < f[j + 1]

\* urgencies null, 5, absent: rendered 5 first, then the two zeros in input order
C8_Witness ==
    /\ Normalized
    /\ endpoint = "/gpt/html/tasks"
    /\ Len(improved) = 3
    /\ raw_tasks[1].urgency = NullNum
    /\ raw_tasks[2].urgency = Num(5)
    /\ raw_tasks[3].urgency = AbsentNum
    /\ response.body[1].description = "b"
    /\ response.body[2].description = "e"
    /\ response.body[3].description = ""

\* the three numbers that the labels days, hours, minutes describe
TimeDiffLine(t) == <<t.days, t.hours, t.minutes>>

\* C9: in the HTML, the 'Due in' and 'Overdue by' lines of a task show its
\* TimeDiff's days, hours and minutes under the labels days, hours, minutes.
C9_LinesShowTimeDiff ==
    Normalized /\ endpoint = "/gpt/html/tasks" =>
        \A j \in Records :
            LET task == sorted(improved)[j]
            IN /\ Present(task.due_in) =>
                      response.body[j].due_in = <<TimeDiffLine(task.due_in.v)>>
               /\ Present(task.overdue_by) =>
                      response.body[j].overdue_by = <<TimeDiffLine(task.overdue_by.v)>>

\* C10: two raw records of one batch with identical fields yield identical
\* enriched tasks, whatever the clock does while the batch is normalised.
C10_SameRecordSameTask ==
    Normalized =>
        \A i, j \in Records :
            raw_tasks[i] = raw_tasks[j] => improved[i] = improved[j]

\* C6: diff(a, b) is the floor decomposition of |a - b| in whole seconds S:
\* days = S div 86400, hours = (S mod 86400) div 3600, minutes = (S mod 3600)
\* div 60, seconds dropped; diff(a, b) = diff(b, a); diff(a, a) = {0, 0, 0}.
C6_DiffFloorDecomposition ==
    Done /\ endpoint = "none" =>
        LET later == IF After(dt1, dt2) THEN dt1 ELSE dt2
            earlier == IF After(dt1, dt2) THEN dt2 ELSE dt1
            \* the whole seconds S of later - earlier: earlier + S <= later < earlier + S + 1
            S == CHOOSE n \in {later.s - earlier.s - 1, later.s - earlier.s} :
                     /\ NotBefore(later, Instant(earlier.s + n, earlier.us))
                     /\ After(Instant(earlier.s + n + 1, earlier.us), later)
            sum == td.days * 86400 + td.hours * 3600 + td.minutes * 60
        IN /\ td.days = S \div 86400
           /\ td.hours = (S % 86400) \div 3600
           /\ td.minutes = (S % 3600) \div 60
           /\ td.days >= 0
           /\ td.hours \in 0..23
           /\ td.minutes \in 0..59
           /\ sum <= S /\ S < sum + 60
           /\ td = diff(dt2, dt1)
           /\ dt1 = dt2 => td = TimeDiffModel(0, 0, 0)

\* 1d 1h 0m 0.999999s apart, the later instant second
C6_Witness ==
    /\ Done
    /\ endpoint = "none"
    /\ dt1 = Instant(60, 1)
    /\ dt2 = Instant(90061, 0)
    /\ td = TimeDiffModel(1, 1, 0)

====
